---- MODULE Spec2Model ----
(***************************************************************************)
(* Model of package iodatafmt (src/unnamed/part_000): the format resolver, *)
(* the Marshal/Unmarshal/Load/Write/Print/Sprint facade and the recursive  *)
(* restoreArrayMapValue pass that turns maps keyed "0","1",... into slices.*)
(*                                                                         *)
(* Go strings are sequences of byte codes (so that sort.Strings,           *)
(* strconv.Itoa and strings.ToUpper are computed, not assumed).  Slices and*)
(* maps are objects of a heap addressed by position; an interface{} value  *)
(* is a Ref: its dynamic type and either a scalar or a heap address.       *)
(***************************************************************************)
EXTENDS Integers, Sequences, FiniteSets

VARIABLES heap, base, d, pc, res, res2, arg, ret, encIn, fx, files, fds, stdout

vars == <<heap, base, d, pc, res, res2, arg, ret, encIn, fx, files, fds, stdout>>

(***************************************************************************)
(* Bounds of the model.                                                    *)
(***************************************************************************)
\* widest flat map "0".."MaxIdx-1" offered to the normalizer
MaxIdx == 11
\* longest slice in the nested inputs
MaxLen == 2
\* most keys in a nested input map
MaxKeys == 2
\* most keys in a flat input map over the irregular key alphabet
MaxFlatKeys == 3
\* descriptors the process may hold open (os.Create fails beyond it)
MaxOpenFiles == 2

\* e, and then F of its value: a statement sequence x := e; F(x)
Then(e, F(_)) == CHOOSE y \in {F(x) : x \in {e}} : TRUE

(***************************************************************************)
(* Strings.                                                                *)
(***************************************************************************)
\* strconv.Itoa: the decimal digits, most significant first
RECURSIVE Itoa(_)
Itoa(i) ==
    IF i < 0 THEN <<45>> \o Itoa(0 - i)
    ELSE IF i < 10 THEN <<48 + i>>
    ELSE Itoa(i \div 10) \o <<48 + (i % 10)>>

\* Go's a < b on strings, bytewise: a is a proper prefix of b, or the first
\* byte that differs is smaller in a
StrLess(a, b) ==
    \E i \in 1..Len(b) :
        /\ \A j \in 1..(i - 1) : j <= Len(a) /\ a[j] = b[j]
        /\ (i > Len(a) \/ (i <= Len(a) /\ a[i] < b[i]))
        /\ i <= Len(a) + 1

\* sort.Strings applied to a slice holding the keys S (each once): key k goes
\* to the position after the keys smaller than it
SortStrings(S) ==
    [i \in 1..Cardinality(S) |->
        CHOOSE k \in S : Cardinality({y \in S : StrLess(y, k)}) = i - 1]

\* strings.ToUpper on the ASCII range
ToUpper(s) == [i \in 1..Len(s) |-> IF s[i] >= 97 /\ s[i] <= 122 THEN s[i] - 32 ELSE s[i]]

\* fmt.Sprintf("%v", k) for a string k prints the string itself
SprintfV(k) == k

(***************************************************************************)
(* Values.  A Ref is an interface{}: type is the dynamic type the type     *)
(* switch of restoreArrayMapValue sees ("slice" is []interface{}, "map" is *)
(* map[string]interface{}, "string", and "other" for numbers, booleans and *)
(* nil); val is the heap address of a slice or map, or the scalar.         *)
(***************************************************************************)
NilRef == [type |-> "other", val |-> 0]

SliceObj(q) == [seq |-> q, map |-> <<>>]

MapObj(m) == [seq |-> <<>>, map |-> m]

\* m[k] = v on a Go map
MapSet(m, k, v) == [x \in (DOMAIN m) \cup {k} |-> IF x = k THEN v ELSE m[x]]

(***************************************************************************)
(* The tree a Ref denotes, read off a heap: the Value of the specification.*)
(***************************************************************************)
ScalarT(ty, s) == [type |-> ty, s |-> s, seq |-> <<>>, map |-> <<>>]

SliceT(q) == [type |-> "slice", s |-> 0, seq |-> q, map |-> <<>>]

MapT(m) == [type |-> "map", s |-> 0, seq |-> <<>>, map |-> m]

RECURSIVE Val(_, _)
Val(h, r) ==
    CASE r.type = "slice" ->
            SliceT([i \in 1..Len(h[r.val].seq) |-> Val(h, h[r.val].seq[i])])
      [] r.type = "map" ->
            MapT([k \in DOMAIN h[r.val].map |-> Val(h, h[r.val].map[k])])
      [] OTHER -> ScalarT(r.type, r.val)

\* the heap addresses reachable from a Ref
RECURSIVE Reach(_, _)
Reach(h, r) ==
    CASE r.type = "slice" ->
            {r.val} \cup UNION {Reach(h, h[r.val].seq[i]) : i \in 1..Len(h[r.val].seq)}
      [] r.type = "map" ->
            {r.val} \cup UNION {Reach(h, h[r.val].map[k]) : k \in DOMAIN h[r.val].map}
      [] OTHER -> {}

(***************************************************************************)
(* Building a tree on the heap: what a caller (or a decoder) does when it  *)
(* constructs the value it hands over.                                     *)
(***************************************************************************)
RECURSIVE Alloc(_, _), AllocSeq(_, _, _), AllocMap(_, _, _)
AllocSeq(h, q, acc) ==
    IF Len(acc) = Len(q) THEN [h |-> h, refs |-> acc]
    ELSE Then(Alloc(h, q[Len(acc) + 1]),
              LAMBDA r : AllocSeq(r.h, q, Append(acc, r.v)))

AllocMap(h, m, acc) ==
    IF DOMAIN m \subseteq DOMAIN acc THEN [h |-> h, refs |-> acc]
    ELSE Then(CHOOSE x \in DOMAIN m : x \notin DOMAIN acc,
              LAMBDA k : Then(Alloc(h, m[k]),
                              LAMBDA r : AllocMap(r.h, m, MapSet(acc, k, r.v))))

Alloc(h, t) ==
    CASE t.type = "slice" ->
            Then(AllocSeq(h, t.seq, <<>>),
                 LAMBDA r : [h |-> Append(r.h, SliceObj(r.refs)),
                             v |-> [type |-> "slice", val |-> Len(r.h) + 1]])
      [] t.type = "map" ->
            Then(AllocMap(h, t.map, <<>>),
                 LAMBDA r : [h |-> Append(r.h, MapObj(r.refs)),
                             v |-> [type |-> "map", val |-> Len(r.h) + 1]])
      [] OTHER -> [h |-> h, v |-> [type |-> t.type, val |-> t.s]]

(***************************************************************************)
(* willRestore: the sorted keys and whether they are "0","1",...            *)
(***************************************************************************)
\* the number a key's digits spell, its other characters skipped
RECURSIVE Atoi(_)
Atoi(s) ==
    IF Len(s) = 0 THEN 0
    ELSE IF s[Len(s)] >= 48 /\ s[Len(s)] <= 57
         THEN 10 * Atoi(SubSeq(s, 1, Len(s) - 1)) + (s[Len(s)] - 48)
         ELSE Atoi(SubSeq(s, 1, Len(s) - 1))

\* a willRestore that parses each key as a number instead of comparing text
willRestoreParsing(in) ==
    IF Cardinality(DOMAIN in) = 0 THEN [keys |-> <<>>, ok |-> FALSE]
    ELSE Then(SortStrings(DOMAIN in),
              LAMBDA keys : IF \A i \in 1..Len(keys) : Atoi(keys[i]) = i - 1
                            THEN [keys |-> keys, ok |-> TRUE]
                            ELSE [keys |-> <<>>, ok |-> FALSE])

willRestore(in) ==
    IF Cardinality(DOMAIN in) = 0 THEN [keys |-> <<>>, ok |-> FALSE]
    ELSE Then(SortStrings(DOMAIN in),
              LAMBDA keys : IF \A i \in 1..Len(keys) : keys[i] = Itoa(i - 1)
                            THEN [keys |-> keys, ok |-> TRUE]
                            ELSE [keys |-> <<>>, ok |-> FALSE])

(***************************************************************************)
(* The recursive pass.  Each operator takes the heap and returns the heap  *)
(* after its allocations and writes, with the value it returns.            *)
(***************************************************************************)
RECURSIVE restoreArrayMapValue(_, _), restoreArrayInterfaceArray(_, _),
          restoreArrayInterfaceMap(_, _), ArrayLoop(_, _, _, _, _),
          MapLoop(_, _, _, _)

\* for i, v := range in { res[i] = restoreArrayMapValue(v) }
ArrayLoop(h, in, out, i, n) ==
    IF i > n THEN h
    ELSE Then(restoreArrayMapValue(h, h[in.val].seq[i]),
              LAMBDA r : ArrayLoop([r.h EXCEPT ![out.val].seq[i] = r.v], in, out, i + 1, n))

\* a restoreArrayInterfaceArray that stores the restored elements into its argument
restoreArrayInterfaceArrayInPlace(h, in) ==
    [h |-> ArrayLoop(h, in, in, 1, Len(h[in.val].seq)), v |-> in]

restoreArrayInterfaceArray(h, in) ==
    Then([type |-> "slice", val |-> Len(h) + 1],
         LAMBDA out :
            [h |-> ArrayLoop(Append(h, SliceObj([i \in 1..Len(h[in.val].seq) |-> NilRef])),
                             in, out, 1, Len(h[in.val].seq)),
             v |-> out])

\* for k, v := range in { res[Sprintf("%v", k)] = restoreArrayMapValue(v) }
\* (range visits the keys in an unspecified order; the entries written do not
\* depend on it, only the addresses the allocations get)
MapLoop(h, in, out, todo) ==
    IF todo = {} THEN h
    ELSE Then(CHOOSE x \in todo : TRUE,
              LAMBDA k :
                Then(restoreArrayMapValue(h, h[in.val].map[k]),
                     LAMBDA r :
                        MapLoop([r.h EXCEPT ![out.val].map = MapSet(@, SprintfV(k), r.v)],
                                in, out, todo \ {k})))

\* if b { for _, key := range keys { array = append(array, res[key]) }; return array }
\* return res
RestoredOrMap(h, out, w) ==
    IF w.ok
    THEN [h |-> Append(h, SliceObj([i \in 1..Len(w.keys) |-> h[out.val].map[w.keys[i]]])),
          v |-> [type |-> "slice", val |-> Len(h) + 1]]
    ELSE [h |-> h, v |-> out]

\* a restoreArrayInterfaceMap that copies the values without descending into them
restoreArrayInterfaceMapShallow(h, in) ==
    Then(Append(h, MapObj(h[in.val].map)),
         LAMBDA h1 : RestoredOrMap(h1, [type |-> "map", val |-> Len(h1)],
                                   willRestore(h1[Len(h1)].map)))

restoreArrayInterfaceMap(h, in) ==
    Then([type |-> "map", val |-> Len(h) + 1],
         LAMBDA out :
            Then(MapLoop(Append(h, MapObj(<<>>)), in, out, DOMAIN h[in.val].map),
                 LAMBDA h1 : RestoredOrMap(h1, out, willRestore(h1[out.val].map))))

restoreArrayMapValue(h, v) ==
    CASE v.type = "slice"  -> restoreArrayInterfaceArray(h, v)
      [] v.type = "map"    -> restoreArrayInterfaceMap(h, v)
      [] v.type = "string" -> [h |-> h, v |-> v]
      [] OTHER             -> [h |-> h, v |-> v]

(***************************************************************************)
(* Formats, byte strings and the codecs.                                   *)
(***************************************************************************)
YAML == 0

TOML == 1

JSON == 2

UNKNOWN == 3

Supported == {YAML, TOML, JSON}

Formats == {YAML, TOML, JSON, UNKNOWN}

\* "YAML", "TOML", "JSON"
StrYAML == <<89, 65, 77, 76>>

StrTOML == <<84, 79, 77, 76>>

StrJSON == <<74, 83, 79, 78>>

ErrUnsupported == "unsupported data format"

ErrNotExist == "file doesn't exist"

NilTree == ScalarT("other", 0)

\* A byte string is known by what the codecs make of it: the one format it is
\* well formed in (-1: none) and the tree it then denotes.
NilBytes == [nil |-> TRUE, wf |-> -1, doc |-> NilTree]

Text(f, t) == [nil |-> FALSE, wf |-> f, doc |-> t]

Garbage == [nil |-> FALSE, wf |-> -1, doc |-> NilTree]

\* yaml.Unmarshal / toml.Unmarshal / json.Unmarshal into an interface{}
Decode(b, f) ==
    IF b.wf = f THEN [err |-> "", tree |-> b.doc]
    ELSE [err |-> "decode error", tree |-> NilTree]

\* yaml.Marshal / toml Encode / json.MarshalIndent; ok is whether the library
\* accepts the value
Encode(t, f, ok) ==
    IF ok THEN [err |-> "", b |-> Text(f, t)]
    ELSE [err |-> "encode error", b |-> NilBytes]

(***************************************************************************)
(* The facade functions, as functions of the heap and the file system.     *)
(***************************************************************************)
NoEnc == [called |-> FALSE, v |-> NilRef]

NoFx == [stat |-> FALSE, read |-> FALSE, decoded |-> FALSE, created |-> FALSE, handle |-> "none"]

NoOut == [text |-> NilBytes, nl |-> FALSE]

\* a Format that compares the name as given
FormatCaseSensitive(s) ==
    CASE s = StrYAML -> [f |-> YAML, err |-> ""]
      [] s = StrTOML -> [f |-> TOML, err |-> ""]
      [] s = StrJSON -> [f |-> JSON, err |-> ""]
      [] OTHER -> [f |-> UNKNOWN, err |-> ErrUnsupported]

Format(s) ==
    CASE ToUpper(s) = StrYAML -> [f |-> YAML, err |-> ""]
      [] ToUpper(s) = StrTOML -> [f |-> TOML, err |-> ""]
      [] ToUpper(s) = StrJSON -> [f |-> JSON, err |-> ""]
      [] OTHER -> [f |-> UNKNOWN, err |-> ErrUnsupported]

Unmarshal(h, b, f) ==
    IF f \in Supported
    THEN Then(Decode(b, f),
              LAMBDA dec :
                IF dec.err # ""
                THEN [h |-> h, val |-> NilRef, err |-> dec.err]
                ELSE Then(Alloc(h, dec.tree),
                          LAMBDA a : [h |-> a.h, val |-> a.v, err |-> ""]))
    ELSE [h |-> h, val |-> NilRef, err |-> ErrUnsupported]

Marshal(h, v, f, ok) ==
    Then(restoreArrayMapValue(h, v),
         LAMBDA r :
            IF f \in Supported
            THEN Then(Encode(Val(r.h, r.v), f, ok),
                      LAMBDA e : [h |-> r.h, b |-> e.b, err |-> e.err,
                                  enc |-> [called |-> TRUE, v |-> r.v]])
            ELSE [h |-> r.h, b |-> NilBytes, err |-> ErrUnsupported, enc |-> NoEnc])

\* ioutil.ReadFile succeeds on a readable file when a descriptor is free
Readable(fs, n, fn) == fs[fn].state = "ok" /\ n < MaxOpenFiles

\* a Load that goes straight to ReadFile
LoadNoStat(h, fs, n, fn, f) ==
    IF ~Readable(fs, n, fn)
    THEN [h |-> h, val |-> NilRef, err |-> "read error",
          fx |-> [NoFx EXCEPT !.read = TRUE]]
    ELSE Then(Unmarshal(h, fs[fn].data, f),
              LAMBDA u : [h |-> u.h, val |-> u.val, err |-> u.err,
                          fx |-> [NoFx EXCEPT !.read = TRUE, !.decoded = TRUE]])

Load(h, fs, n, fn, f) ==
    IF fs[fn].state = "missing"
    THEN [h |-> h, val |-> NilRef, err |-> ErrNotExist,
          fx |-> [NoFx EXCEPT !.stat = TRUE]]
    ELSE IF ~Readable(fs, n, fn)
    THEN [h |-> h, val |-> NilRef, err |-> "read error",
          fx |-> [NoFx EXCEPT !.stat = TRUE, !.read = TRUE]]
    ELSE Then(Unmarshal(h, fs[fn].data, f),
              LAMBDA u :
                IF u.err # ""
                THEN [h |-> u.h, val |-> NilRef, err |-> u.err,
                      fx |-> [NoFx EXCEPT !.stat = TRUE, !.read = TRUE, !.decoded = TRUE]]
                ELSE [h |-> u.h, val |-> u.val, err |-> "",
                      fx |-> [NoFx EXCEPT !.stat = TRUE, !.read = TRUE, !.decoded = TRUE]])

\* os.Create succeeds when the environment lets it, the path is not one the
\* process is denied, and a descriptor is free
Creatable(fs, n, fn, env) == env.createOk /\ fs[fn].state # "denied" /\ n < MaxOpenFiles

Write(h, fs, n, fn, v, f, env) ==
    Then(Marshal(h, v, f, env.encOk),
         LAMBDA m :
            IF m.err # ""
            THEN [h |-> m.h, err |-> m.err, enc |-> m.enc, files |-> fs, fds |-> n,
                  fx |-> NoFx]
            ELSE IF ~Creatable(fs, n, fn, env)
            THEN [h |-> m.h, err |-> "create error", enc |-> m.enc, files |-> fs,
                  fds |-> n, fx |-> NoFx]
            ELSE IF ~env.writeOk
            THEN [h |-> m.h, err |-> "write error", enc |-> m.enc,
                  files |-> [fs EXCEPT ![fn] = [state |-> "ok", data |-> Garbage]],
                  fds |-> n + 1,
                  fx |-> [NoFx EXCEPT !.created = TRUE, !.handle = "open"]]
            ELSE [h |-> m.h, err |-> "", enc |-> m.enc,
                  files |-> [fs EXCEPT ![fn] = [state |-> "ok", data |-> m.b]],
                  fds |-> n,
                  fx |-> [NoFx EXCEPT !.created = TRUE, !.handle = "closed"]])

\* Print (the name is an operator of TLA+ already)
PrintData(h, v, f, ok) ==
    Then(Marshal(h, v, f, ok),
         LAMBDA m :
            IF m.err # ""
            THEN [h |-> m.h, err |-> m.err, enc |-> m.enc, out |-> NoOut]
            ELSE [h |-> m.h, err |-> "", enc |-> m.enc, out |-> [text |-> m.b, nl |-> TRUE]])

Sprint(h, v, f, ok) ==
    Then(Marshal(h, v, f, ok),
         LAMBDA m :
            IF m.err # ""
            THEN [h |-> m.h, err |-> m.err, enc |-> m.enc, s |-> NoOut]
            ELSE [h |-> m.h, err |-> "", enc |-> m.enc, s |-> [text |-> m.b, nl |-> TRUE]])

(***************************************************************************)
(* Inputs.                                                                 *)
(***************************************************************************)
SeqsUpTo(V, n) == UNION {[1..k -> V] : k \in 0..n}

MapsOver(K, V, n) == UNION {[S -> V] : S \in {T \in SUBSET K : Cardinality(T) <= n}}

\* a string and a number
S1 == ScalarT("string", 1)

S2 == ScalarT("other", 2)

Scalars == {S1, S2}

\* "0", "1", "a"
NestKeys == {<<48>>, <<49>>, <<97>>}

\* "0", "1", "2", "01", "+2", "a"
FlatKeys == {<<48>>, <<49>>, <<50>>, <<48, 49>>, <<43, 50>>, <<97>>}

Level1 ==
    Scalars
      \cup {SliceT(q) : q \in SeqsUpTo({S1}, MaxLen - 1)}
      \cup {MapT(m) : m \in MapsOver(NestKeys, {S1}, MaxKeys)}

Level2 ==
    {SliceT(q) : q \in SeqsUpTo(Level1, MaxLen)}
      \cup {MapT(m) : m \in MapsOver(NestKeys, Level1, MaxKeys)}

FlatMaps == {MapT(m) : m \in MapsOver(FlatKeys, Scalars, MaxFlatKeys)}

\* every value S1, or S1 but for one key
OneMarked(K) ==
    {[k \in K |-> S1]} \cup {[k \in K |-> IF k = m THEN S2 ELSE S1] : m \in K}

\* the maps keyed "0".."n-1", and the same with one key left out
WideMaps ==
    UNION {{MapT(m) : m \in OneMarked({Itoa(i) : i \in 0..(n - 1)})} : n \in 4..MaxIdx}
      \cup {MapT([k \in {Itoa(i) : i \in (0..(n - 1)) \ {g}} |-> S1]) :
              n \in 4..MaxIdx, g \in 0..3}

NormInputs == Level1 \cup Level2 \cup FlatMaps \cup WideMaps

\* {"0": S1, "1": S2}, {"a": {"0": S1}}, [{"0": S1}], S1
FacadeInputs ==
    { MapT([k \in {<<48>>, <<49>>} |-> IF k = <<48>> THEN S1 ELSE S2]),
      MapT([k \in {<<97>>} |-> MapT([j \in {<<48>>} |-> S1])]),
      SliceT(<<MapT([j \in {<<48>>} |-> S1])>>),
      S1 }

\* the documents handed to the decoders
Docs ==
    {Text(f, t) : f \in Supported,
                  t \in { MapT([k \in {<<48>>, <<49>>} |-> IF k = <<48>> THEN S1 ELSE S2]),
                          MapT([k \in {<<97>>} |-> SliceT(<<S1>>)]),
                          MapT([k \in {<<97>>} |-> MapT([j \in {<<48>>} |-> S1])]) }}
      \cup {Garbage}

CaseVariants(u) ==
    {[i \in 1..Len(u) |-> IF i \in L THEN u[i] + 32 ELSE u[i]] : L \in SUBSET (1..Len(u))}

\* every spelling of yaml, toml and json, and "", "xml", "yml", "jso", "YAML ", "ajson"
Names ==
    CaseVariants(StrYAML) \cup CaseVariants(StrTOML) \cup CaseVariants(StrJSON)
      \cup { <<>>, <<120, 109, 108>>, <<121, 109, 108>>, <<106, 115, 111>>,
             <<89, 65, 77, 76, 32>>, <<97, 106, 115, 111, 110>> }

Paths == {"data.json"}

InitialFiles ==
    { [state |-> "missing", data |-> NilBytes],
      [state |-> "denied", data |-> NilBytes],
      [state |-> "ok", data |-> Garbage],
      [state |-> "ok", data |-> Text(JSON, MapT([k \in {<<48>>} |-> S1]))] }

Envs == [encOk : BOOLEAN, createOk : BOOLEAN, writeOk : BOOLEAN]

(***************************************************************************)
(* States.                                                                 *)
(***************************************************************************)
NoArg == [f |-> UNKNOWN, name |-> <<>>, fn |-> "", b |-> NilBytes]

NoRet == [f |-> UNKNOWN, err |-> "", val |-> NilRef, b |-> NilBytes, s |-> NoOut]

InitCommon ==
    /\ pc = "start"
    /\ res = NilRef /\ res2 = NilRef
    /\ arg = NoArg /\ ret = NoRet /\ encIn = NoEnc /\ fx = NoFx
    /\ fds = 0 /\ stdout = NoOut

\* the caller holds a tree; the path is missing, denied, or holds a document
Init ==
    /\ \E t \in FacadeInputs :
          \E a \in {Alloc(<<>>, t)} :
              heap = a.h /\ d = a.v /\ base = Len(a.h)
    /\ files \in [Paths -> InitialFiles]
    /\ InitCommon

\* the caller holds a tree; the path is not there yet
InitNorm ==
    /\ \E t \in NormInputs :
          \E a \in {Alloc(<<>>, t)} :
              heap = a.h /\ d = a.v /\ base = Len(a.h)
    /\ files = [fn \in Paths |-> [state |-> "missing", data |-> NilBytes]]
    /\ InitCommon

\* a call starts from the caller's objects: what the last call allocated is gone
Begin == SubSeq(heap, 1, base)

Normalize ==
    /\ pc = "start"
    /\ \E r \in {restoreArrayMapValue(heap, d)} :
          heap' = r.h /\ res' = r.v
    /\ pc' = "normalized"
    /\ UNCHANGED <<base, d, res2, arg, ret, encIn, fx, files, fds, stdout>>

NormalizeAgain ==
    /\ pc = "normalized"
    /\ \E r \in {restoreArrayMapValue(heap, res)} :
          heap' = r.h /\ res2' = r.v
    /\ pc' = "renormalized"
    /\ UNCHANGED <<base, d, res, arg, ret, encIn, fx, files, fds, stdout>>

CallFormat ==
    \E s \in Names :
        \E r \in {Format(s)} :
            /\ pc' = "Format"
            /\ arg' = [NoArg EXCEPT !.name = s]
            /\ ret' = [NoRet EXCEPT !.f = r.f, !.err = r.err]
            /\ heap' = Begin /\ encIn' = NoEnc /\ fx' = NoFx /\ stdout' = NoOut
            /\ UNCHANGED <<base, d, res, res2, files, fds>>

CallUnmarshal ==
    \E b \in Docs, f \in Formats :
        \E r \in {Unmarshal(Begin, b, f)} :
            /\ pc' = "Unmarshal"
            /\ arg' = [NoArg EXCEPT !.b = b, !.f = f]
            /\ ret' = [NoRet EXCEPT !.val = r.val, !.err = r.err]
            /\ heap' = r.h /\ encIn' = NoEnc /\ fx' = NoFx /\ stdout' = NoOut
            /\ UNCHANGED <<base, d, res, res2, files, fds>>

CallMarshal ==
    \E f \in Formats, ok \in BOOLEAN :
        \E r \in {Marshal(Begin, d, f, ok)} :
            /\ pc' = "Marshal"
            /\ arg' = [NoArg EXCEPT !.f = f]
            /\ ret' = [NoRet EXCEPT !.b = r.b, !.err = r.err]
            /\ heap' = r.h /\ encIn' = r.enc /\ fx' = NoFx /\ stdout' = NoOut
            /\ UNCHANGED <<base, d, res, res2, files, fds>>

CallLoad ==
    \E fn \in DOMAIN files, f \in Formats :
        \E r \in {Load(Begin, files, fds, fn, f)} :
            /\ pc' = "Load"
            /\ arg' = [NoArg EXCEPT !.fn = fn, !.f = f]
            /\ ret' = [NoRet EXCEPT !.val = r.val, !.err = r.err]
            /\ heap' = r.h /\ encIn' = NoEnc /\ fx' = r.fx /\ stdout' = NoOut
            /\ UNCHANGED <<base, d, res, res2, files, fds>>

\* d is a map[string]interface{} here: Write takes no other value
CallWrite ==
    /\ d.type = "map"
    /\ \E fn \in DOMAIN files, f \in Formats, env \in Envs :
        \E r \in {Write(Begin, files, fds, fn, d, f, env)} :
            /\ pc' = "Write"
            /\ arg' = [NoArg EXCEPT !.fn = fn, !.f = f]
            /\ ret' = [NoRet EXCEPT !.err = r.err]
            /\ heap' = r.h /\ encIn' = r.enc /\ fx' = r.fx /\ stdout' = NoOut
            /\ files' = r.files /\ fds' = r.fds
            /\ UNCHANGED <<base, d, res, res2>>

CallPrint ==
    \E f \in Formats, ok \in BOOLEAN :
        \E r \in {PrintData(Begin, d, f, ok)} :
            /\ pc' = "Print"
            /\ arg' = [NoArg EXCEPT !.f = f]
            /\ ret' = [NoRet EXCEPT !.err = r.err]
            /\ heap' = r.h /\ encIn' = r.enc /\ fx' = NoFx /\ stdout' = r.out
            /\ UNCHANGED <<base, d, res, res2, files, fds>>

CallSprint ==
    \E f \in Formats, ok \in BOOLEAN :
        \E r \in {Sprint(Begin, d, f, ok)} :
            /\ pc' = "Sprint"
            /\ arg' = [NoArg EXCEPT !.f = f]
            /\ ret' = [NoRet EXCEPT !.s = r.s, !.err = r.err]
            /\ heap' = r.h /\ encIn' = r.enc /\ fx' = NoFx /\ stdout' = NoOut
            /\ UNCHANGED <<base, d, res, res2, files, fds>>

\* the facade, called again and again
Next ==
    \/ CallFormat
    \/ CallUnmarshal
    \/ CallMarshal
    \/ CallLoad
    \/ CallWrite
    \/ CallPrint
    \/ CallSprint

Spec == Init /\ [][Next]_vars

\* the encode path on one tree: restored once and again, or handed once to
\* one of the encoding functions
MarshalOnce == pc = "start" /\ CallMarshal

WriteOnce == pc = "start" /\ CallWrite

PrintOnce == pc = "start" /\ CallPrint

SprintOnce == pc = "start" /\ CallSprint

NextNorm ==
    \/ Normalize
    \/ NormalizeAgain
    \/ MarshalOnce
    \/ WriteOnce
    \/ PrintOnce
    \/ SprintOnce

SpecNorm == InitNorm /\ [][NextNorm]_vars

(***************************************************************************)
(* The vocabulary of the claims.                                           *)
(***************************************************************************)
\* a Mapping whose key set is exactly the decimal strings "0".."n-1", n > 0
IndexShaped(t) ==
    /\ t.type = "map"
    /\ Cardinality(DOMAIN t.map) > 0
    /\ DOMAIN t.map = {Itoa(i) : i \in 0..(Cardinality(DOMAIN t.map) - 1)}

\* the tree the pass returns for the tree t
Normalized(t) ==
    Then(Alloc(<<>>, t),
         LAMBDA a : Then(restoreArrayMapValue(a.h, a.v), LAMBDA r : Val(r.h, r.v)))

RECURSIVE NoIndexShapedNode(_)
NoIndexShapedNode(t) ==
    /\ ~IndexShaped(t)
    /\ \A i \in 1..Len(t.seq) : NoIndexShapedNode(t.seq[i])
    /\ \A k \in DOMAIN t.map : NoIndexShapedNode(t.map[k])

\* a slice or map that holds a slice or map
Nested(t) ==
    \/ \E i \in 1..Len(t.seq) : t.seq[i].type \in {"slice", "map"}
    \/ \E k \in DOMAIN t.map : t.map[k].type \in {"slice", "map"}

\* s is the upper-case word u in some mix of upper and lower case
SameIgnoringCase(s, u) ==
    /\ Len(s) = Len(u)
    /\ \A i \in 1..Len(u) : s[i] = u[i] \/ s[i] = u[i] + 32

\* C1: an index-shaped Mapping of any size n is restored to the Sequence of
\* length n whose element i is the restored value of key Itoa(i): the order is
\* the numeric order of the keys.
C1_RestoredInNumericOrder ==
    (pc = "normalized" /\ IndexShaped(Val(heap, d))) =>
        LET m   == Val(heap, d).map
            n   == Cardinality(DOMAIN m)
            out == Val(heap, res)
        IN  /\ out.type = "slice"
            /\ Len(out.seq) = n
            /\ \A i \in 0..(n - 1) : out.seq[i + 1] = Normalized(m[Itoa(i)])

\* The part of C1 that holds: the same for index-shaped Mappings whose keys
\* have one digit.
C1_UpToTenKeys ==
    (pc = "normalized" /\ IndexShaped(Val(heap, d))
        /\ Cardinality(DOMAIN Val(heap, d).map) <= 10) =>
        LET m   == Val(heap, d).map
            n   == Cardinality(DOMAIN m)
            out == Val(heap, res)
        IN  /\ out.type = "slice"
            /\ Len(out.seq) = n
            /\ \A i \in 0..(n - 1) : out.seq[i + 1] = Normalized(m[Itoa(i)])

\* C2: a Mapping that is not index-shaped (empty, a gap, a non-canonical or
\* non-numeric key) is returned as a Mapping with the same keys, each value
\* restored; it is never turned into a Sequence.
C2_OtherMappingsKeepKeys ==
    (pc = "normalized" /\ d.type = "map" /\ ~IndexShaped(Val(heap, d))) =>
        LET m   == Val(heap, d).map
            out == Val(heap, res)
        IN  /\ out.type = "map"
            /\ DOMAIN out.map = DOMAIN m
            /\ \A k \in DOMAIN m : out.map[k] = Normalized(m[k])

\* the map with the keys "0" and "01" has been through the pass
C2_Witness ==
    /\ pc = "normalized" /\ d.type = "map" /\ ~IndexShaped(Val(heap, d))
    /\ DOMAIN Val(heap, d).map = {<<48>>, <<48, 49>>}
    /\ Val(heap, res).type = "map"

\* C3: restoring the restored value again changes nothing.
C3_Idempotent ==
    pc = "renormalized" => Val(heap, res2) = Val(heap, res)

\* a nested tree that the first pass changed has been through the second
C3_Witness ==
    /\ pc = "renormalized"
    /\ Nested(Val(heap, d))
    /\ Val(heap, res) # Val(heap, d)
    /\ Val(heap, res2) = Val(heap, res)

\* C4: after the pass no node of the result, at any depth, is an index-shaped
\* Mapping.
C4_NoIndexShapedLeft ==
    pc = "normalized" => NoIndexShapedNode(Val(heap, res))

\* C5: a successful Unmarshal returns the restored form of what the decoder
\* produced, so no index-shaped Mapping of the decoder is left in it.
C5_UnmarshalRestores ==
    (pc = "Unmarshal" /\ ret.err = "") =>
        /\ Val(heap, ret.val) = Normalized(Decode(arg.b, arg.f).tree)
        /\ NoIndexShapedNode(Val(heap, ret.val))

\* C6: for a supported format Marshal, and Write, Print and Sprint through it,
\* hand the encoder the restored tree and not the caller's, so that an
\* index-shaped Mapping of the caller's tree reaches the encoder as an array.
C6_EncoderGetsRestored ==
    (pc \in {"Marshal", "Write", "Print", "Sprint"} /\ arg.f \in Supported) =>
        /\ encIn.called
        /\ Val(heap, encIn.v) = Normalized(Val(heap, d))
        /\ (d.type \in {"slice", "map"} => encIn.v # d)
        /\ NoIndexShapedNode(Val(heap, encIn.v))

\* The part of C6 that holds: the encoder is handed what the pass returns for
\* the caller's tree, and never a slice or map of the caller.
C6_EncoderGetsPassResult ==
    (pc \in {"Marshal", "Write", "Print", "Sprint"} /\ arg.f \in Supported) =>
        /\ encIn.called
        /\ Val(heap, encIn.v) = Normalized(Val(heap, d))
        /\ Reach(heap, encIn.v) \cap (1..base) = {}

\* C7: whenever Write created the file, the handle is closed when Write
\* returns, whether the bytes were written or not.
C7_WriteClosesFile ==
    (pc = "Write" /\ fx.created) => fx.handle = "closed"

\* C8: Load of a missing path fails with the file-not-found error, having read
\* and decoded nothing; of a file that cannot be read, with the read error;
\* otherwise it returns what Unmarshal returns on the file's contents; and a
\* failed Load returns no value.
C8_LoadOutcome ==
    pc = "Load" =>
        /\ files[arg.fn].state = "missing" =>
              ret.err = ErrNotExist /\ ret.val = NilRef /\ ~fx.read /\ ~fx.decoded
        /\ (files[arg.fn].state # "missing" /\ ~Readable(files, fds, arg.fn)) =>
              ret.err = "read error" /\ ret.val = NilRef /\ ~fx.decoded
        /\ Readable(files, fds, arg.fn) =>
              \E u \in {Unmarshal(Begin, files[arg.fn].data, arg.f)} :
                  ret.err = u.err /\ Val(heap, ret.val) = Val(u.h, u.val)
        /\ ret.err # "" => ret.val = NilRef

\* a Load has decoded a readable file into a map
C8_Witness ==
    /\ pc = "Load"
    /\ Readable(files, fds, arg.fn)
    /\ ret.err = ""
    /\ ret.val.type = "map"

\* C9: Format returns YAML, TOML or JSON without an error exactly for the
\* names that are "YAML", "TOML" or "JSON" up to case, and UNKNOWN with the
\* unsupported-format error for every other name; the format is UNKNOWN
\* exactly when there is an error.
C9_FormatByName ==
    pc = "Format" =>
        /\ SameIgnoringCase(arg.name, StrYAML) <=> (ret.f = YAML /\ ret.err = "")
        /\ SameIgnoringCase(arg.name, StrTOML) <=> (ret.f = TOML /\ ret.err = "")
        /\ SameIgnoringCase(arg.name, StrJSON) <=> (ret.f = JSON /\ ret.err = "")
        /\ (\A u \in {StrYAML, StrTOML, StrJSON} : ~SameIgnoringCase(arg.name, u)) =>
              ret.f = UNKNOWN /\ ret.err = ErrUnsupported
        /\ ret.f = UNKNOWN <=> ret.err # ""

\* Format has resolved "Yaml"
C9_Witness ==
    /\ pc = "Format"
    /\ arg.name = <<89, 97, 109, 108>>
    /\ ret.f = YAML
    /\ ret.err = ""

\* C10: a call of the pass, alone or through Marshal, Write, Print or Sprint,
\* leaves every slice and map of the caller's tree as it was; the slices and
\* maps of what it returns (or hands to the encoder) are all allocated by the
\* call; a scalar is returned as it is.
C10_InputUntouched ==
    [][(pc = "start" /\ pc' # "start") =>
          /\ \A a \in 1..base : heap'[a] = heap[a]
          /\ Reach(heap', IF pc' = "normalized" THEN res' ELSE encIn'.v)
                \cap (1..Len(heap)) = {}
          /\ (pc' = "normalized" /\ d.type \notin {"slice", "map"}) => res' = d]_vars

\* the pass has run on a slice that holds slices or maps
C10_Witness ==
    /\ pc = "normalized"
    /\ d.type = "slice"
    /\ Nested(Val(heap, d))
    /\ res # d
====
